---- MODULE Spec2Model ----
(***************************************************************************)
(* Camunda external-task workers (Camunda_ExperienciaClienteV2).           *)
(*                                                                         *)
(* One task is claimed from the broker and handed to its handler.  The     *)
(* handler of topic ibm-rpa-autorizacao (handle_executar_rpa) is modelled  *)
(* statement by statement, with IBMRPAClient.aguardar_conclusao as a loop  *)
(* over a wall clock in whole seconds.  The other handlers share one       *)
(* shape (read variables, validate, call the downstream client inside      *)
(* try/except) and are modelled by that shape with their differences read  *)
(* from the source into HandlerTable.                                      *)
(***************************************************************************)
EXTENDS Integers, Sequences, FiniteSets, TLC

VARIABLES
    handler,              \* the handler function bound to the task's topic
    pc,                   \* position of the handler invocation
    inReq,                \* shape of the handler's key input variable
    inAux,                \* shape of the handler's JSON-valued input variable
    outKind,              \* what the invocation produced
    outRetries,           \* retries of TaskResult.failure, -1 otherwise
    downstreamCalled,     \* a request or statement was sent downstream
    dsRaised,             \* the downstream operation ended with an unexpected exception
    timeout_seconds,      \* IBMRPAConfig.timeout_seconds
    poll_interval_seconds,\* IBMRPAConfig.poll_interval_seconds
    processConfigured,    \* IBMRPAConfig.process_id is not empty
    now,                  \* wall clock, seconds since the task was locked
    tempo_inicio,         \* aguardar_conclusao: time.time() at entry
    nQueries,             \* number of consultar_status_instancia calls made
    queryTime,            \* seconds spent inside those calls
    lastAnswer,           \* how the last status query ended, and its raw status
    lastLog,              \* level of the last record aguardar_conclusao logged
    rpa_mensagem,         \* second component of aguardar_conclusao's result
    rpa_status,           \* first component of aguardar_conclusao's result
    rpa_output,           \* third component: "None", "dict" or "bad"
    instance_id,          \* value returned by iniciar_processo
    out_rpa_status,       \* result variable rpa_status of the reported outcome
    rpa_instance_id,      \* result variable rpa_instance_id of the reported outcome
    remoteScript,         \* statuses the remote reports next (mock remote)
    scenario,             \* the script the remote was given at the start
    sessionOpen,          \* a requests.Session or Oracle connection of this invocation is open
    claims,               \* times the broker has handed this task to a worker
    subIdx,               \* main(): index of the subscribe call in progress
    polls,                \* fetchAndLock requests issued, per topic
    idleCycles,           \* completed idle sleeps of the worker process
    backlog,              \* tasks waiting in the broker, per topic
    fn,                   \* the function last called on its own, or "none"
    arg,                  \* the argument it was called with
    res,                  \* the value it returned
    mpc,                  \* run_workers.py: position of monitor_processes
    idx,                  \* index of the worker the current loop is at
    running,              \* per worker: the child process has not exited
    pipe,                 \* per worker: lines written to stdout and not read yet
    exitDetected,         \* per worker: poll() has returned its exit code
    termSent              \* per worker: terminate() was called on it

handlerVars == <<handler, pc, inReq, inAux, outKind, outRetries, downstreamCalled,
                 dsRaised, sessionOpen>>
configVars  == <<timeout_seconds, poll_interval_seconds, processConfigured>>
rpaVars     == <<now, tempo_inicio, nQueries, queryTime, lastAnswer, lastLog, rpa_mensagem,
                 rpa_status, rpa_output,
                 instance_id, out_rpa_status, rpa_instance_id, remoteScript,
                 scenario>>
brokerVars  == <<claims>>
workerVars  == <<subIdx, polls, idleCycles, backlog>>
fnVars      == <<fn, arg, res>>
monVars     == <<mpc, idx, running, pipe, exitDetected, termSent>>
vars == <<handlerVars, configVars, rpaVars, brokerVars, workerVars, fnVars, monVars>>

(***************************************************************************)
(* Bounds of the model.                                                    *)
(***************************************************************************)
MaxTimeout == 4       \* small timeout budgets 2..MaxTimeout, beside 30
MaxPoll    == 2       \* small poll intervals 1..MaxPoll, beside 5
MaxLatency == 2       \* seconds one HTTP request may take in the model

(***************************************************************************)
(* Program constants.                                                      *)
(***************************************************************************)
REQUEST_TIMEOUT == 30      \* requests.get(..., timeout=30)
lock_duration   == 600000  \* CamundaConfig.lock_duration, milliseconds

None == "None"

(***************************************************************************)
(* Status strings are sequences of characters, so that str.upper() is      *)
(* computed and not assumed.                                               *)
(***************************************************************************)
LowerLetters == <<"a","b","c","d","e","f","g","h","i","j","k","l","m",
                  "n","o","p","q","r","s","t","u","v","w","x","y","z">>
UpperLetters == <<"A","B","C","D","E","F","G","H","I","J","K","L","M",
                  "N","O","P","Q","R","S","T","U","V","W","X","Y","Z">>

UpperChar(c) ==
    IF \E i \in DOMAIN LowerLetters : LowerLetters[i] = c
    THEN UpperLetters[CHOOSE i \in DOMAIN LowerLetters : LowerLetters[i] = c]
    ELSE c

Upper(s) == [i \in DOMAIN s |-> UpperChar(s[i])]

sDONE      == <<"D","O","N","E">>
sCOMPLETED == <<"C","O","M","P","L","E","T","E","D">>
sFAILED    == <<"F","A","I","L","E","D">>
sCANCELED  == <<"C","A","N","C","E","L","E","D">>
sERROR     == <<"E","R","R","O","R">>
sNEW       == <<"N","E","W">>
sQUEUED    == <<"Q","U","E","U","E","D">>
sPROCESSING == <<"P","R","O","C","E","S","S","I","N","G">>
sRUNNING   == <<"R","U","N","N","I","N","G">>
sPENDING   == <<"P","E","N","D","I","N","G">>

\* Raw status strings the remote may report: exact names, case variants, a
\* name outside the vocabulary and the empty string of a missing status.
RawStatuses ==
    { sDONE, <<"C","o","m","p","l","e","t","e","d">>, sFAILED,
      <<"c","a","n","c","e","l","e","d">>, sERROR, sRUNNING,
      <<"q","u","e","u","e","d">>, <<"P","A","U","S","E","D">>, <<>>,
      <<"d","o","n","e">>, <<"F","a","i","l","e","d">>,
      <<"r","u","n","n","i","n","g">>, <<"p","a","u","s","e","d">> }

\* A status query ends with a status ("status"), with
\* requests.RequestException ("neterr") or with another exception
\* ("badpayload": a body that is not JSON, a null status).
\* An answer with a failure status carries the body's errorMessage and error
\* keys: absent (None), empty or a text.
NoErrorBody == [errorMessage |-> None, error |-> None]

ErrorBodies ==
    {NoErrorBody,
     [errorMessage |-> "Robot crashed", error |-> "E42"],
     [errorMessage |-> "", error |-> "E42"]}

ErrorBodiesOf(raw) ==
    IF Upper(raw) \in {sFAILED, sCANCELED, sERROR} THEN ErrorBodies ELSE {NoErrorBody}

QueryAnswers ==
    {a \in [kind : {"status"}, raw : RawStatuses, err : ErrorBodies] :
        a.err \in ErrorBodiesOf(a.raw)}
        \cup [kind : {"neterr", "badpayload"}, raw : {<<>>}, err : {NoErrorBody}]

NoAnswer == [kind |-> "none", raw |-> <<>>, err |-> NoErrorBody]

NoMessage == <<>>

ClassifyStatus_UnknownIsError(raw) ==
    LET status == Upper(raw) IN
    IF status \in {sDONE, sCOMPLETED} THEN "SUCESSO"
    ELSE IF status \in {sNEW, sQUEUED, sPROCESSING, sRUNNING, sPENDING} THEN "running"
    ELSE "ERRO"

ClassifyStatus_CaseSensitive(raw) ==
    IF raw \in {sDONE, sCOMPLETED} THEN "SUCESSO"
    ELSE IF raw \in {sFAILED, sCANCELED, sERROR} THEN "ERRO"
    ELSE IF raw \in {sNEW, sQUEUED, sPROCESSING, sRUNNING, sPENDING} THEN "running"
    ELSE "unknown"

\* The if/elif chain on the upper-cased status.
ClassifyStatus(raw) ==
    LET status == Upper(raw) IN
    IF status \in {sDONE, sCOMPLETED} THEN "SUCESSO"
    ELSE IF status \in {sFAILED, sCANCELED, sERROR} THEN "ERRO"
    ELSE IF status \in {sNEW, sQUEUED, sPROCESSING, sRUNNING, sPENDING} THEN "running"
    ELSE "unknown"

IsTerminal(raw) == ClassifyStatus(raw) \in {"SUCESSO", "ERRO"}

LogLevelOf_UnknownAsInfo(a, before) ==
    IF a.kind = "neterr" THEN "ERROR"
    ELSE IF a.kind = "badpayload" THEN before
    ELSE "INFO"

\* Level of the last record aguardar_conclusao logs in an iteration whose
\* query ended with a; before is the level of the record logged last.
LogLevelOf(a, before) ==
    IF a.kind = "neterr" THEN "ERROR"              \* logger.error in the except
    ELSE IF a.kind = "badpayload" THEN before      \* raised before any record
    ELSE IF ClassifyStatus(a.raw) = "unknown" THEN "WARNING"
    ELSE "INFO"                                    \* "Status atual: ..."

ErrorMsgOf_ErrorFirst(err) ==
    IF err.error \notin {None, ""} THEN err.error
    ELSE IF err.errorMessage \notin {None, ""} THEN err.errorMessage
    ELSE "Erro desconhecido"

\* data.get('errorMessage') or data.get('error') or 'Erro desconhecido'
ErrorMsgOf(err) ==
    IF err.errorMessage \notin {None, ""} THEN err.errorMessage
    ELSE IF err.error \notin {None, ""} THEN err.error
    ELSE "Erro desconhecido"

\* The message returned with a terminal status: the f-string's pieces.
MensagemOf(a) ==
    IF ClassifyStatus(a.raw) = "SUCESSO"
    THEN <<"Processo concluido com sucesso">>
    ELSE <<"Processo falhou: ", ErrorMsgOf(a.err)>>

MensagemTimeout == <<"Timeout apos ", "tempo_maximo", "s">>

(***************************************************************************)
(* The handlers.  Each row of HandlerTable is read from one handler:       *)
(*   validates      the key variable is checked with "if not x" and the    *)
(*                  task is failed with retries=0 when it is missing       *)
(*   coerces        int(x) inside try/except (ValueError, TypeError),      *)
(*                  failing the task with retries=0                        *)
(*   unguardedRead  a statement outside every try block that raises on a   *)
(*                  JSON variable of the wrong type                        *)
(*   guarded        the downstream call is skipped when the key is falsy   *)
(*   clientCatches  the client method catches Exception and returns an     *)
(*                  error dict instead of raising                          *)
(*   onError        what the handler's "except Exception" block does       *)
(*   returns        "TaskResult", or "dict" for the handler that returns   *)
(*                  plain dicts                                            *)
(***************************************************************************)
Row(v, c, u, g, cc, oe, r) ==
    [validates |-> v, coerces |-> c, unguardedRead |-> u, guarded |-> g,
     clientCatches |-> cc, onError |-> oe, returns |-> r]

RPA == "handle_executar_rpa"

HandlerTable ==
    [ api_handle_consulta_paciente    |-> Row(FALSE, FALSE, FALSE, FALSE, FALSE, "failure", "TaskResult"),
      oracle_handle_consulta_paciente |-> Row(FALSE, FALSE, FALSE, TRUE,  FALSE, "raise",   "dict"),
      handle_estratificar_risco       |-> Row(TRUE,  FALSE, TRUE,  FALSE, FALSE, "success", "TaskResult"),
      handle_atualizar_autorizacao    |-> Row(TRUE,  TRUE,  FALSE, FALSE, TRUE,  "success", "TaskResult"),
      handle_notificar_medico         |-> Row(TRUE,  TRUE,  FALSE, FALSE, TRUE,  "success", "TaskResult"),
      handle_autorizacao_inteligente  |-> Row(TRUE,  FALSE, FALSE, FALSE, TRUE,  "success", "TaskResult"),
      handle_followup_pos_atendimento |-> Row(TRUE,  FALSE, FALSE, FALSE, TRUE,  "success", "TaskResult"),
      handle_coletar_nps              |-> Row(TRUE,  FALSE, FALSE, FALSE, TRUE,  "success", "TaskResult"),
      handle_analisar_desfechos       |-> Row(TRUE,  FALSE, FALSE, FALSE, TRUE,  "success", "TaskResult"),
      handle_atualizar_modelos        |-> Row(FALSE, FALSE, FALSE, FALSE, TRUE,  "success", "TaskResult"),
      handle_identificar_beneficiario |-> Row(TRUE,  FALSE, FALSE, FALSE, TRUE,  "success", "TaskResult"),
      handle_classificar_demanda      |-> Row(TRUE,  FALSE, FALSE, FALSE, TRUE,  "success", "TaskResult"),
      handle_processar_demanda        |-> Row(FALSE, FALSE, FALSE, FALSE, FALSE, "success", "TaskResult"),
      handle_atribuir_navegador       |-> Row(TRUE,  FALSE, FALSE, FALSE, TRUE,  "success", "TaskResult"),
      handle_rede_preferencial        |-> Row(TRUE,  FALSE, FALSE, FALSE, TRUE,  "success", "TaskResult"),
      handle_orquestrar_jornada       |-> Row(TRUE,  FALSE, FALSE, FALSE, TRUE,  "success", "TaskResult"),
      handle_realizar_screening       |-> Row(TRUE,  FALSE, FALSE, FALSE, FALSE, "success", "TaskResult"),
      handle_enviar_boas_vindas       |-> Row(TRUE,  FALSE, FALSE, FALSE, TRUE,  "success", "TaskResult"),
      handle_comunicacao_proativa     |-> Row(TRUE,  FALSE, FALSE, FALSE, TRUE,  "success", "TaskResult"),
      handle_comunicar_tempo_real     |-> Row(TRUE,  FALSE, FALSE, FALSE, TRUE,  "success", "TaskResult") ]

TableHandlers == DOMAIN HandlerTable
Handlers == TableHandlers \cup {RPA}

(***************************************************************************)
(* Inputs.                                                                 *)
(***************************************************************************)
\* The key variable of the task: not sent, sent empty, sent with a usable
\* value, or sent with a value int() rejects.
ReqShapes == {"absent", "empty", "valid", "malformed"}
\* A JSON variable arrives as a dict or as something else (null, a string).
AuxShapes == {"dict", "other"}

Missing(shape) == shape \in {"absent", "empty"}

Latencies == 0..MaxLatency

\* (timeout_seconds, poll_interval_seconds): small budgets with small
\* intervals, and the 30 s budget with the 5 s interval of the scenario.
Configs ==
    ((2..MaxTimeout) \X (1..MaxPoll)) \cup {<<30, 5>>}

\* The defaults of IBMRPAConfig.
DefaultConfig == <<300, 10>>

\* The mock remote of the end-to-end scenario, and a remote left free.
ScenarioScript == <<sRUNNING, sRUNNING, sDONE>>
Scripts == {<<>>, ScenarioScript}

StartResults == {"raises", "instance-1", None}
OutputShapes == {"dict", "bad"}

\* No function has been called on its own.
PyNone == [t |-> "NoneType", v |-> <<>>, n |-> 0, d |-> 0]

InitFnIdle ==
    /\ fn = "none"
    /\ arg = PyNone
    /\ res = PyNone

\* run_workers.py is not running.
InitMonIdle ==
    /\ mpc = "off"
    /\ idx = 0
    /\ running = <<>>
    /\ pipe = <<>>
    /\ exitDetected = <<>>
    /\ termSent = <<>>

InitWorkerIdle ==
    /\ subIdx = 0
    /\ polls = <<>>
    /\ idleCycles = 0
    /\ backlog = <<>>

InitHandler(Cs) ==
    /\ handler \in Handlers
    /\ pc = "claimed"
    /\ inReq \in IF handler = RPA THEN {"valid", "malformed"} ELSE ReqShapes
    /\ inAux \in IF handler = RPA THEN {"dict"} ELSE AuxShapes
    /\ outKind = "none"
    /\ outRetries = -1
    /\ downstreamCalled = FALSE
    /\ dsRaised = FALSE
    /\ sessionOpen = FALSE
    /\ \E c \in IF handler = RPA THEN Cs ELSE {DefaultConfig} :
          /\ timeout_seconds = c[1]
          /\ poll_interval_seconds = c[2]
    /\ processConfigured \in IF handler = RPA THEN BOOLEAN ELSE {TRUE}
    /\ now = 0
    /\ tempo_inicio = 0
    /\ nQueries = 0
    /\ queryTime = 0
    /\ lastAnswer = NoAnswer
    /\ lastLog = "none"
    /\ rpa_mensagem = NoMessage
    /\ rpa_status = None
    /\ rpa_output = None
    /\ instance_id = None
    /\ out_rpa_status = None
    /\ rpa_instance_id = None
    /\ remoteScript \in IF handler = RPA THEN Scripts ELSE {<<>>}
    /\ scenario = remoteScript
    /\ claims = 1

Init == InitHandler(Configs) /\ InitWorkerIdle /\ InitFnIdle /\ InitMonIdle

(***************************************************************************)
(* Reporting: the value the handler returns to the worker loop.            *)
(***************************************************************************)
\* return TaskResult.failure(task, ..., retries=0, retry_timeout=5000)
ReturnFailure ==
    /\ outKind' = "failure"
    /\ outRetries' = 0
    /\ pc' = "done"

\* return TaskResult.success(task, {...})
ReturnSuccess ==
    /\ outKind' = "success"
    /\ outRetries' = -1
    /\ pc' = "done"

\* a plain dict is returned instead of a TaskResult
ReturnDict ==
    /\ outKind' = "dict"
    /\ outRetries' = -1
    /\ pc' = "done"

\* an exception leaves the handler
Escapes ==
    /\ outKind' = "raised"
    /\ outRetries' = -1
    /\ pc' = "done"

(***************************************************************************)
(* handle_executar_rpa                                                     *)
(***************************************************************************)
\* The except block of handle_executar_rpa.
RpaExcept ==
    /\ ReturnSuccess
    /\ out_rpa_status' = "ERRO"
    /\ rpa_instance_id' = None

\* Variables, configuration check and payload, up to the try block.
RpaRead ==
    /\ handler = RPA
    /\ pc = "claimed"
    /\ IF ~processConfigured
       THEN ReturnFailure
       ELSE IF inReq = "malformed"
            THEN Escapes          \* int(convenio_codigo) raises ValueError
            ELSE /\ pc' = "iniciar"
                 /\ UNCHANGED <<outKind, outRetries>>
    /\ UNCHANGED <<handler, sessionOpen, inReq, inAux, downstreamCalled, dsRaised, configVars,
                   rpaVars, brokerVars, workerVars, fnVars, monVars>>

\* client.iniciar_processo(...): one POST, then aguardar_conclusao is entered.
IniciarProcesso ==
    /\ handler = RPA
    /\ pc = "iniciar"
    /\ \E d \in Latencies, r \in StartResults :
        /\ now' = now + d
        /\ downstreamCalled' = TRUE
        /\ dsRaised' = (r = "raises")
        /\ IF r = "raises"
           THEN /\ RpaExcept
                /\ UNCHANGED <<instance_id, tempo_inicio>>
           ELSE /\ instance_id' = r
                /\ tempo_inicio' = now'
                /\ pc' = "wait_check"
                /\ UNCHANGED <<outKind, outRetries, out_rpa_status, rpa_instance_id>>
    /\ UNCHANGED <<handler, sessionOpen, inReq, inAux, configVars, nQueries, queryTime,
                   lastAnswer, lastLog, rpa_mensagem, rpa_status, rpa_output,
                   remoteScript, scenario,
                   brokerVars, workerVars, fnVars, monVars>>

\* the time spent inside status queries is not charged to the budget
Elapsed_ExcludingQueries == now - tempo_inicio - queryTime

\* tempo_decorrido = time.time() - tempo_inicio
Elapsed == now - tempo_inicio

BudgetSpent_Strict == Elapsed > timeout_seconds

BudgetSpent_Early == Elapsed + poll_interval_seconds >= timeout_seconds

\* if tempo_decorrido >= tempo_maximo
BudgetSpent == Elapsed >= timeout_seconds

\* Head of the while loop: the budget test.
WaitCheck ==
    /\ handler = RPA
    /\ pc = "wait_check"
    /\ IF BudgetSpent
       THEN /\ rpa_status' = "TIMEOUT"
            /\ rpa_mensagem' = MensagemTimeout
            /\ rpa_output' = None
            /\ lastLog' = "WARNING"     \* logger.warning("Timeout aguardando ...")
            /\ pc' = "extract"
       ELSE /\ pc' = "wait_query"
            /\ UNCHANGED <<rpa_status, rpa_mensagem, rpa_output, lastLog>>
    /\ UNCHANGED <<handler, sessionOpen, inReq, inAux, outKind, outRetries, downstreamCalled,
                   dsRaised, configVars, now, tempo_inicio, nQueries, queryTime,
                   lastAnswer, instance_id, out_rpa_status, rpa_instance_id,
                   remoteScript, scenario, brokerVars, workerVars, fnVars, monVars>>

\* What the remote may answer to the next query.
NextAnswers ==
    IF remoteScript = <<>>
    THEN QueryAnswers
    ELSE {[kind |-> "status", raw |-> Head(remoteScript), err |-> NoErrorBody]}

\* One consultar_status_instancia call and the branch taken on its result.
WaitQuery ==
    /\ handler = RPA
    /\ pc = "wait_query"
    /\ \E d \in Latencies, a \in NextAnswers, o \in OutputShapes :
        /\ now' = now + d
        /\ nQueries' = nQueries + 1
        /\ queryTime' = queryTime + d
        /\ lastAnswer' = a
        /\ lastLog' = LogLevelOf(a, lastLog)
        /\ dsRaised' = (a.kind = "badpayload")
        /\ remoteScript' = IF remoteScript = <<>> THEN <<>> ELSE Tail(remoteScript)
        /\ IF a.kind = "neterr"
           THEN /\ pc' = "wait_sleep"
                /\ UNCHANGED <<rpa_status, rpa_mensagem, rpa_output, outKind, outRetries,
                               out_rpa_status, rpa_instance_id>>
           ELSE IF a.kind = "badpayload"
           THEN /\ RpaExcept
                /\ UNCHANGED <<rpa_status, rpa_mensagem, rpa_output>>
           ELSE IF ClassifyStatus(a.raw) \in {"SUCESSO", "ERRO"}
           THEN /\ rpa_status' = ClassifyStatus(a.raw)
                /\ rpa_mensagem' = MensagemOf(a)
                /\ rpa_output' = o
                /\ pc' = "extract"
                /\ UNCHANGED <<outKind, outRetries, out_rpa_status, rpa_instance_id>>
           ELSE /\ pc' = "wait_sleep"
                /\ UNCHANGED <<rpa_status, rpa_mensagem, rpa_output, outKind, outRetries,
                               out_rpa_status, rpa_instance_id>>
    /\ UNCHANGED <<handler, sessionOpen, inReq, inAux, downstreamCalled, configVars,
                   tempo_inicio, instance_id, scenario, brokerVars, workerVars, fnVars, monVars>>

SleepSeconds_Twice == 2 * poll_interval_seconds

\* the argument of time.sleep
SleepSeconds == poll_interval_seconds

\* time.sleep(self.config.poll_interval_seconds)
WaitSleep ==
    /\ handler = RPA
    /\ pc = "wait_sleep"
    /\ now' = now + SleepSeconds
    /\ pc' = "wait_check"
    /\ UNCHANGED <<handler, sessionOpen, inReq, inAux, outKind, outRetries, downstreamCalled,
                   dsRaised, configVars, tempo_inicio, nQueries, queryTime,
                   lastAnswer, lastLog, rpa_mensagem, rpa_status, rpa_output,
                   instance_id, out_rpa_status,
                   rpa_instance_id, remoteScript, scenario, brokerVars, workerVars, fnVars, monVars>>

\* The output is read without the "if rpa_output" guard.
ExtractAndReturn_Unguarded ==
    /\ handler = RPA
    /\ pc = "extract"
    /\ IF rpa_output # "dict"
       THEN RpaExcept
       ELSE /\ ReturnSuccess
            /\ out_rpa_status' = rpa_status
            /\ rpa_instance_id' = instance_id
    /\ UNCHANGED <<handler, sessionOpen, inReq, inAux, downstreamCalled, dsRaised, configVars,
                   now, tempo_inicio, nQueries, queryTime, lastAnswer, lastLog,
                   rpa_mensagem, rpa_status,
                   rpa_output, instance_id, remoteScript, scenario, brokerVars,
                   workerVars, fnVars, monVars>>

\* Steps 3 and 4 of the handler: the output is read and the result returned.
ExtractAndReturn ==
    /\ handler = RPA
    /\ pc = "extract"
    /\ IF rpa_output = "bad"
       THEN RpaExcept             \* outputs.get / var.get raises AttributeError
       ELSE /\ ReturnSuccess
            /\ out_rpa_status' = rpa_status
            /\ rpa_instance_id' = instance_id
    /\ UNCHANGED <<handler, sessionOpen, inReq, inAux, downstreamCalled, dsRaised, configVars,
                   now, tempo_inicio, nQueries, queryTime, lastAnswer, lastLog,
                   rpa_mensagem, rpa_status,
                   rpa_output, instance_id, remoteScript, scenario, brokerVars,
                   workerVars, fnVars, monVars>>

(***************************************************************************)
(* The handlers of the other topics.                                       *)
(***************************************************************************)
Validates(h) == HandlerTable[h].validates

\* Handlers whose client opens a requests.Session in __init__.
OpensAtConstruction == {"api_handle_consulta_paciente"}

\* Handlers whose client opens nothing that has a close(): the risk model,
\* and the classification client.
OpensNothing ==
    {"handle_estratificar_risco", "handle_classificar_demanda",
     "handle_processar_demanda"}

\* Handlers whose client opens its session or connection lazily, in
\* _get_session() or _get_connection(), on the first downstream call.
OpensAtCall == TableHandlers \ (OpensAtConstruction \cup OpensNothing)

\* Handlers whose try block ends with finally: client.close().
ClosesInFinally == OpensAtCall

OnException_AlwaysSuccess(h) == "success"

OnException(h) == HandlerTable[h].onError

\* From task.get_variables() to the statement before the try block.
HandlerRead ==
    /\ handler \in TableHandlers
    /\ pc = "claimed"
    /\ LET row == HandlerTable[handler] IN
       IF row.unguardedRead /\ inAux = "other"
       THEN Escapes               \* dados_saude.get(...) on a non-dict
       ELSE IF Validates(handler) /\ Missing(inReq)
       THEN ReturnFailure
       ELSE IF row.coerces /\ inReq = "malformed"
       THEN ReturnFailure         \* int(nr_sequencia) raised ValueError
       ELSE /\ pc' = "call"
            /\ UNCHANGED <<outKind, outRetries>>
    /\ sessionOpen' = (pc' = "call" /\ handler \in OpensAtConstruction)
    /\ UNCHANGED <<handler, inReq, inAux, downstreamCalled, dsRaised, configVars,
                   rpaVars, brokerVars, workerVars, fnVars, monVars>>

DownstreamBehaviours == {"ok", "negative", "raises"}

\* The try block: the client call and the return built from its result, or
\* the except block.
HandlerCall ==
    /\ handler \in TableHandlers
    /\ pc = "call"
    /\ LET row == HandlerTable[handler] IN
       \E b \in DownstreamBehaviours :
          IF row.guarded /\ Missing(inReq)
          THEN /\ ReturnDict      \* no query is run, "paciente_encontrado": False
               /\ UNCHANGED <<downstreamCalled, dsRaised>>
          ELSE /\ downstreamCalled' = TRUE
               /\ dsRaised' = (b = "raises")
               /\ IF b = "raises" /\ ~row.clientCatches
                  THEN IF OnException(handler) = "failure" THEN ReturnFailure
                       ELSE IF OnException(handler) = "success" THEN ReturnSuccess
                       ELSE Escapes
                  ELSE IF row.returns = "dict" THEN ReturnDict ELSE ReturnSuccess
    /\ sessionOpen' = /\ sessionOpen \/ (downstreamCalled' /\ handler \in OpensAtCall)
                      /\ handler \notin ClosesInFinally
    /\ UNCHANGED <<handler, inReq, inAux, configVars, rpaVars, brokerVars,
                   workerVars, fnVars, monVars>>

(***************************************************************************)
(* One claimed task, from the claim to the handler's return.               *)
(***************************************************************************)
Next ==
    \/ RpaRead
    \/ IniciarProcesso
    \/ WaitCheck
    \/ WaitQuery
    \/ WaitSleep
    \/ ExtractAndReturn
    \/ HandlerRead
    \/ HandlerCall

Spec == Init /\ [][Next]_vars

\* The handler is sequential Python: every statement, request (bounded by
\* its timeout) and sleep completes, so a step that can be taken is taken.
FairSpec == Spec /\ WF_vars(Next)

(***************************************************************************)
(* The lock of the claimed task.  The worker fetches the task with         *)
(* lockDuration = lock_duration; no handler extends the lock.  Once the    *)
(* lock has run out the engine hands the still uncompleted task to the     *)
(* next fetchAndLock request.                                              *)
(***************************************************************************)
MaxClaims == 2

\* IBM_RPA_TIMEOUT_SECONDS and IBM_RPA_POLL_INTERVAL_SECONDS: the default
\* budget of five minutes, and a deployment that allows the robot fifteen,
\* both polling once a minute.
LeaseConfigs == {<<DefaultConfig[1], 60>>, <<900, 60>>}

\* milliseconds since the task was fetched and locked
LockAge == now * 1000

LockExpired == LockAge >= lock_duration

\* A second fetchAndLock for the topic obtains the task.
BrokerReassign ==
    /\ handler = RPA
    /\ pc # "done"
    /\ LockExpired
    /\ claims < MaxClaims
    /\ claims' = claims + 1
    /\ UNCHANGED <<handlerVars, configVars, rpaVars, workerVars, fnVars, monVars>>

InitLease == InitHandler(LeaseConfigs) /\ InitWorkerIdle /\ InitFnIdle /\ InitMonIdle

NextLease ==
    \/ Next
    \/ BrokerReassign

SpecLease == InitLease /\ [][NextLease]_vars

(***************************************************************************)
(* main() of a worker process with several topics.                         *)
(***************************************************************************)
MaxPolls == 3
MaxQueue == 1

\* the topic_names of the consecutive worker.subscribe calls
WorkerTopics == <<"whatsapp-enviar-boas-vindas",
                  "whatsapp-comunicacao-proativa",
                  "whatsapp-comunicar-tempo-real">>

Topics == 1..Len(WorkerTopics)

InitWorker ==
    /\ handler = "none"
    /\ pc = "main"
    /\ inReq = "valid"
    /\ inAux = "dict"
    /\ outKind = "none"
    /\ outRetries = -1
    /\ downstreamCalled = FALSE
    /\ dsRaised = FALSE
    /\ sessionOpen = FALSE
    /\ timeout_seconds = DefaultConfig[1]
    /\ poll_interval_seconds = DefaultConfig[2]
    /\ processConfigured = TRUE
    /\ now = 0
    /\ tempo_inicio = 0
    /\ nQueries = 0
    /\ queryTime = 0
    /\ lastAnswer = NoAnswer
    /\ lastLog = "none"
    /\ rpa_mensagem = NoMessage
    /\ rpa_status = None
    /\ rpa_output = None
    /\ instance_id = None
    /\ out_rpa_status = None
    /\ rpa_instance_id = None
    /\ remoteScript = <<>>
    /\ scenario = <<>>
    /\ claims = 0
    /\ subIdx = 0
    /\ polls = [t \in Topics |-> 0]
    /\ idleCycles = 0
    /\ backlog \in [Topics -> 0..MaxQueue]
    /\ InitFnIdle /\ InitMonIdle

\* main() reaches its first worker.subscribe(...) statement.
SubscribeFirst ==
    /\ pc = "main"
    /\ subIdx = 0
    /\ subIdx' = 1
    /\ UNCHANGED <<handlerVars, configVars, rpaVars, brokerVars, fnVars, monVars, polls,
                   idleCycles, backlog>>

\* Inside worker.subscribe(topic, action): one fetchAndLock for the topic
\* of this call, then the action on the fetched task or the idle sleep.
FetchAndLock ==
    /\ pc = "main"
    /\ subIdx \in Topics
    /\ polls[subIdx] < MaxPolls
    /\ polls' = [polls EXCEPT ![subIdx] = @ + 1]
    /\ IF backlog[subIdx] > 0
       THEN /\ backlog' = [backlog EXCEPT ![subIdx] = @ - 1]
            /\ UNCHANGED idleCycles
       ELSE /\ idleCycles' = idleCycles + 1
            /\ UNCHANGED backlog
    /\ UNCHANGED <<handlerVars, configVars, rpaVars, brokerVars, fnVars, monVars, subIdx>>

\* The call in progress returns and main() goes on to its next statement:
\* the following worker.subscribe(...), or the end of main().
SubscribeReturns ==
    /\ pc = "main"
    /\ subIdx \in Topics
    /\ subIdx' = subIdx + 1
    /\ UNCHANGED <<handlerVars, configVars, rpaVars, brokerVars, fnVars, monVars, polls,
                   idleCycles, backlog>>

\* The process engine creates a task for one of the topics.
TaskArrives ==
    /\ pc = "main"
    /\ \E t \in Topics :
          /\ backlog[t] < MaxQueue
          /\ backlog' = [backlog EXCEPT ![t] = @ + 1]
    /\ UNCHANGED <<handlerVars, configVars, rpaVars, brokerVars, fnVars, monVars, subIdx, polls,
                   idleCycles>>

NextWorker ==
    \/ SubscribeFirst
    \/ FetchAndLock
    \/ SubscribeReturns
    \/ TaskArrives

SpecWorker == InitWorker /\ [][NextWorker]_vars

(***************************************************************************)
(* Functions called on their own: one call, from the argument to the       *)
(* returned value.  Python strings are sequences of characters.            *)
(***************************************************************************)
PyStr(s) == [t |-> "str", v |-> s, n |-> 0, d |-> 0]

PyInt(i) == [t |-> "int", v |-> <<>>, n |-> i, d |-> 0]

\* the float i + tenths/10, i >= 0
PyFloat(i, tenths) == [t |-> "float", v |-> <<>>, n |-> i, d |-> tenths]

\* dict.get(key, default)
DictGet(d, k, default) == IF k \in DOMAIN d THEN d[k] ELSE default

LowerChar(c) ==
    IF \E i \in DOMAIN UpperLetters : UpperLetters[i] = c
    THEN LowerLetters[CHOOSE i \in DOMAIN UpperLetters : UpperLetters[i] = c]
    ELSE c

Lower(s) == [i \in DOMAIN s |-> LowerChar(s[i])]

RECURSIVE LStrip(_)
LStrip(s) == IF s # <<>> /\ Head(s) = " " THEN LStrip(Tail(s)) ELSE s

RECURSIVE RStrip(_)
RStrip(s) ==
    IF s # <<>> /\ s[Len(s)] = " " THEN RStrip(SubSeq(s, 1, Len(s) - 1)) ELSE s

\* str.strip()
Strip(s) == RStrip(LStrip(s))

STATUS_PARA_ESTAGIO ==
    (<<"A","u","t","o","r","i","z","a","d","o">> :> 2)
    @@ (<<"A","U","T","O","R","I","Z","A","D","O">> :> 2)
    @@ (<<"A","p","r","o","v","a","d","o">> :> 2)
    @@ (<<"A","P","R","O","V","A","D","O">> :> 2)
    @@ (<<"A","n","a","l","i","s","e">> :> 6)
    @@ (<<"A","N","A","L","I","S","E">> :> 6)
    @@ (<<"A","u","d","i","t","o","r","i","a">> :> 29)
    @@ (<<"A","U","D","I","T","O","R","I","A">> :> 29)
    @@ (<<"N","e","g","a","d","o">> :> 7)
    @@ (<<"N","E","G","A","D","O">> :> 7)
    @@ (<<"R","e","c","u","s","a","d","o">> :> 7)
    @@ (<<"R","E","C","U","S","A","D","O">> :> 7)

obter_estagio_por_status(status_autorizacao) ==
    IF status_autorizacao.t = "NoneType" \/ status_autorizacao.v = <<>>
    THEN 6
    ELSE DictGet(STATUS_PARA_ESTAGIO, Strip(status_autorizacao.v), 6)

STATUS_PARA_MODELO ==
    (<<"A","u","t","o","r","i","z","a","d","o">> :> 27)
    @@ (<<"A","U","T","O","R","I","Z","A","D","O">> :> 27)
    @@ (<<"A","p","r","o","v","a","d","o">> :> 27)
    @@ (<<"A","P","R","O","V","A","D","O">> :> 27)
    @@ (<<"N","e","g","a","d","o">> :> 3)
    @@ (<<"N","E","G","A","D","O">> :> 3)
    @@ (<<"R","e","c","u","s","a","d","o">> :> 3)
    @@ (<<"R","E","C","U","S","A","D","O">> :> 3)

MODELO_DEFAULT == 27

obter_modelo_por_status(status_autorizacao) ==
    IF status_autorizacao.t = "NoneType" \/ status_autorizacao.v = <<>>
    THEN MODELO_DEFAULT
    ELSE DictGet(STATUS_PARA_MODELO, Strip(status_autorizacao.v), MODELO_DEFAULT)

\* status_autorizacao as the robot may report it: the table's spellings,
\* their lower-case forms, a padded one, one in no table, empty and None.
StatusWords ==
    LET ks == DOMAIN STATUS_PARA_ESTAGIO IN
    ks \cup {Lower(k) : k \in ks}
       \cup {<<" ","N","e","g","a","d","o"," ">>, <<"P","e","n","d","e","n","t","e">>, <<>>}

StatusInputs == {PyStr(w) : w \in StatusWords} \cup {PyNone}

CallObterEstagio ==
    /\ fn = "none"
    /\ \E s \in StatusInputs :
          /\ fn' = "obter_estagio_por_status"
          /\ arg' = s
          /\ res' = obter_estagio_por_status(s)
    /\ UNCHANGED <<handlerVars, configVars, rpaVars, brokerVars, workerVars, monVars>>

CallObterModelo ==
    /\ fn = "none"
    /\ \E s \in StatusInputs :
          /\ fn' = "obter_modelo_por_status"
          /\ arg' = s
          /\ res' = obter_modelo_por_status(s)
    /\ UNCHANGED <<handlerVars, configVars, rpaVars, brokerVars, workerVars, monVars>>

(***************************************************************************)
(* Step 3 of handle_executar_rpa: the result fields read from rpa_output.  *)
(***************************************************************************)
MaxKeys == 2

Digits == <<"0","1","2","3","4","5","6","7","8","9">>

RECURSIVE IntToStr(_)
\* str(i) for an int i >= 0
IntToStr(i) ==
    IF i < 10 THEN <<Digits[i + 1]>>
    ELSE IntToStr(i \div 10) \o <<Digits[(i % 10) + 1]>>

\* bool(x)
Truthy(x) ==
    IF x.t = "NoneType" THEN FALSE
    ELSE IF x.t = "str" THEN x.v # <<>>
    ELSE x.n # 0 \/ x.d # 0

\* int(x) for a float x: the fraction is dropped
IntOf(x) == PyInt(x.n)

\* str(x)
Str(x) ==
    IF x.t = "str" THEN x
    ELSE IF x.t = "int" THEN PyStr(IntToStr(x.n))
    ELSE IF x.t = "float" THEN PyStr(IntToStr(x.n) \o <<".", Digits[x.d + 1]>>)
    ELSE PyStr(<<"N","o","n","e">>)

statusAliases == <<"status_autorizacao", "statusAutorizacao">>
guiaAliases   == <<"nr_guia_requisicao", "nrGuiaRequisicao", "guia_requisicao">>
numeroAliases == <<"numero_autorizacao", "numeroAutorizacao", "nr_autorizacao">>

Range(seq) == {seq[i] : i \in DOMAIN seq}

\* outputs.get(k)
Get(outputs, k) == IF k \in DOMAIN outputs THEN outputs[k] ELSE PyNone

RECURSIVE OrChain(_, _)
\* outputs.get(a1) or outputs.get(a2) or ...
OrChain(outputs, aliases) ==
    IF Len(aliases) = 1 \/ Truthy(Get(outputs, Head(aliases)))
    THEN Get(outputs, Head(aliases))
    ELSE OrChain(outputs, Tail(aliases))

NoFields ==
    [raised |-> FALSE, status_autorizacao |-> PyNone,
     nr_guia_requisicao |-> PyNone, numero_autorizacao |-> PyNone]

\* The fields read from the outputs map.
FromOutputs(outputs) ==
    LET nr_guia_raw == OrChain(outputs, guiaAliases) IN
    [raised |-> FALSE,
     status_autorizacao |-> OrChain(outputs, statusAliases),
     nr_guia_requisicao |->
        IF nr_guia_raw.t = "NoneType" THEN PyNone
        ELSE IF nr_guia_raw.t = "float" THEN Str(IntOf(nr_guia_raw))
        ELSE Str(nr_guia_raw),
     numero_autorizacao |-> OrChain(outputs, numeroAliases)]

\* One iteration of "for var in variables".
ScanVar(var, acc) ==
    IF var.kind # "dict"
    THEN [acc EXCEPT !.raised = TRUE]          \* var.get: AttributeError
    ELSE IF var.name \in Range(numeroAliases) /\ ~Truthy(acc.numero_autorizacao)
    THEN [acc EXCEPT !.numero_autorizacao = var.value]
    ELSE IF var.name \in Range(statusAliases) /\ ~Truthy(acc.status_autorizacao)
    THEN [acc EXCEPT !.status_autorizacao = var.value]
    ELSE IF var.name \in Range(guiaAliases) /\ ~Truthy(acc.nr_guia_requisicao)
    THEN IF var.value.t = "float"
         THEN [acc EXCEPT !.nr_guia_requisicao = Str(IntOf(var.value))]
         ELSE IF var.value.t # "NoneType"
         THEN [acc EXCEPT !.nr_guia_requisicao = Str(var.value)]
         ELSE acc
    ELSE acc

RECURSIVE ScanVariables(_, _)
ScanVariables(variables, acc) ==
    IF variables = <<>> \/ acc.raised THEN acc
    ELSE ScanVariables(Tail(variables), ScanVar(Head(variables), acc))

\* The fields the handler reports for a dict rpa_output: read from outputs
\* and variables, or all None from the except block.
ExtractFields(rpa_out) ==
    IF rpa_out.outputs.kind # "dict"
    THEN [NoFields EXCEPT !.raised = TRUE]     \* outputs.get: AttributeError
    ELSE LET got == ScanVariables(rpa_out.variables, FromOutputs(rpa_out.outputs.d))
         IN IF got.raised THEN [NoFields EXCEPT !.raised = TRUE] ELSE got

AllAliases == Range(statusAliases) \cup Range(guiaAliases) \cup Range(numeroAliases)

\* values the robot may put under a name
OutValues == {PyFloat(95687, 0), PyFloat(0, 0), PyFloat(12, 5),
              PyStr(<<"A","1">>), PyStr(<<>>), PyNone}

\* maps with at most MaxKeys of the aliases
OutputMaps ==
    UNION {[ks -> OutValues] : ks \in {k \in SUBSET AllAliases : Cardinality(k) <= MaxKeys}}

\* "outputs" of rpa_output: a map, or a value that is not a dict (a list)
OutputsInputs ==
    {[kind |-> "dict", d |-> m] : m \in OutputMaps} \cup {[kind |-> "list", d |-> <<>>]}

\* "variables" of rpa_output: no entry, one {name, value} entry, or one
\* entry that is not a dict
VariablesInputs ==
    {<<>>, <<[kind |-> "str", name |-> "", value |-> PyNone]>>}
        \cup {<<[kind |-> "dict", name |-> nm, value |-> val]>> :
                  nm \in AllAliases \cup {"other"}, val \in OutValues}

CallExtractFields ==
    /\ fn = "none"
    /\ \E o \in OutputsInputs, vs \in VariablesInputs :
          /\ fn' = "ExtractFields"
          /\ arg' = [outputs |-> o, variables |-> vs]
          /\ res' = ExtractFields(arg')
    /\ UNCHANGED <<handlerVars, configVars, rpaVars, brokerVars, workerVars, monVars>>

(***************************************************************************)
(* scripts/iniciar_processo.py: process variables in the engine's format.  *)
(***************************************************************************)
PyBool(b) == [t |-> "bool", v |-> <<>>, n |-> IF b THEN 1 ELSE 0, d |-> 0]

\* a dict whose JSON text, between the braces, is body
PyDict(body) == [t |-> "dict", v |-> body, n |-> 0, d |-> 0]

\* json.dumps(value) for a dict
JsonDumps(x) == <<"{">> \o x.v \o <<"}">>

\* str(value) for the values passed as process variables
StrOf(x) ==
    IF x.t = "bool"
    THEN IF x.n = 1 THEN <<"T","r","u","e">> ELSE <<"F","a","l","s","e">>
    ELSE IF x.t = "dict" THEN JsonDumps(x)    \* the repr of these dicts
    ELSE Str(x).v

\* a formatted variable {"value": ..., "type": ...}
Tagged(val, type) == [value |-> val, type |-> type]

\* The loop body of iniciar_processo; bool is tested before int because a
\* bool is an instance of int.
iniciar_processo_format(value) ==
    IF value.t = "bool" THEN Tagged(value, "Boolean")
    ELSE IF value.t \in {"int", "bool"} THEN Tagged(value, "Integer")
    ELSE IF value.t = "float" THEN Tagged(value, "Double")
    ELSE IF value.t = "dict" THEN Tagged(PyStr(JsonDumps(value)), "Json")
    ELSE Tagged(PyStr(StrOf(value)), "String")

\* The loop body of enviar_mensagem.
enviar_mensagem_format(value) ==
    IF value.t = "dict" THEN Tagged(PyStr(JsonDumps(value)), "Json")
    ELSE Tagged(PyStr(StrOf(value)), "String")

\* The value the engine holds for a formatted variable: the JSON value for
\* Boolean, Integer and Double, the parsed text for Json, the text for
\* String.
Decode(tagged) ==
    IF tagged.type = "Json"
    THEN PyDict(SubSeq(tagged.value.v, 2, Len(tagged.value.v) - 1))
    ELSE tagged.value

VariableValues ==
    {PyBool(TRUE), PyBool(FALSE), PyInt(0), PyInt(42), PyFloat(1, 5),
     PyFloat(95687, 0), PyDict(<<>>), PyDict(<<"a",":","1">>),
     PyStr(<<"a","b","c">>), PyStr(<<"4","2">>), PyStr(<<>>)}

CallIniciarProcessoFormat ==
    /\ fn = "none"
    /\ \E value \in VariableValues :
          /\ fn' = "iniciar_processo"
          /\ arg' = value
          /\ res' = iniciar_processo_format(value)
    /\ UNCHANGED <<handlerVars, configVars, rpaVars, brokerVars, workerVars, monVars>>

CallEnviarMensagemFormat ==
    /\ fn = "none"
    /\ \E value \in VariableValues :
          /\ fn' = "enviar_mensagem"
          /\ arg' = value
          /\ res' = enviar_mensagem_format(value)
    /\ UNCHANGED <<handlerVars, configVars, rpaVars, brokerVars, workerVars, monVars>>

(***************************************************************************)
(* EstratificacaoRiscoModel.  Scores are counted in hundredths: 0.85 is    *)
(* 85.                                                                     *)
(***************************************************************************)
threshold_alto_risco == 70
threshold_medio_risco == 40

Min(a, b) == IF a <= b THEN a ELSE b

classificar_nivel_StrictAlto(score) ==
    IF score >= 85 THEN "COMPLEXO"
    ELSE IF score > threshold_alto_risco THEN "ALTO"
    ELSE IF score >= threshold_medio_risco THEN "MODERADO"
    ELSE "BAIXO"

\* EstratificacaoRiscoModel._classificar_nivel
classificar_nivel(score) ==
    IF score >= 85 THEN "COMPLEXO"
    ELSE IF score >= threshold_alto_risco THEN "ALTO"
    ELSE IF score >= threshold_medio_risco THEN "MODERADO"
    ELSE "BAIXO"

\* The sum of the rule increments, before "return min(score, 1.0)".
RuleSum(features) ==
    (IF features.idade >= 75 THEN 25
     ELSE IF features.idade >= 65 THEN 15
     ELSE IF features.idade >= 55 THEN 8 ELSE 0)
    + Min(features.num_condicoes_cronicas * 12, 36)
    + (IF features.tem_diabetes = 1 THEN 10 ELSE 0)
    + (IF features.tem_hipertensao = 1 THEN 8 ELSE 0)
    + (IF features.tem_cardiaco = 1 THEN 15 ELSE 0)
    + (IF features.num_medicamentos >= 5 THEN 10
       ELSE IF features.num_medicamentos >= 3 THEN 5 ELSE 0)
    + (IF features.num_internacoes_12m >= 2 THEN 20
       ELSE IF features.num_internacoes_12m >= 1 THEN 10 ELSE 0)
    + (IF features.score_saude < 40 THEN 10
       ELSE IF features.score_saude < 60 THEN 5 ELSE 0)
    + (IF features.fumante = 1 THEN 8 ELSE 0)
    + (IF features.pratica_exercicio = 0 THEN 5 ELSE 0)
    + (IF features.imc >= 35 THEN 10
       ELSE IF features.imc >= 30 THEN 5 ELSE 0)

\* EstratificacaoRiscoModel._calcular_score_regras
calcular_score_regras(features) == Min(RuleSum(features), 100)

Flag(b) == IF b THEN 1 ELSE 0

\* EstratificacaoRiscoModel.extrair_features, for the features the rules
\* read; dados is dados_saude with its defaults applied and util is
\* dados_utilizacao.
extrair_features(dados, util) ==
    [idade |-> dados.idade,
     imc |-> dados.imc,
     fumante |-> Flag(dados.fumante),
     pratica_exercicio |-> Flag(dados.pratica_exercicio),
     score_saude |-> dados.score_saude,
     num_condicoes_cronicas |-> Cardinality(dados.condicoes_preexistentes),
     tem_diabetes |-> Flag("DIABETES" \in dados.condicoes_preexistentes),
     tem_hipertensao |-> Flag("HIPERTENSAO" \in dados.condicoes_preexistentes),
     tem_cardiaco |-> Flag("CARDIACO" \in dados.condicoes_preexistentes),
     num_medicamentos |-> dados.num_medicamentos,
     num_internacoes_12m |-> util.internacoes_12m]

\* EstratificacaoRiscoModel.predizer_risco without a trained model
predizer_risco(features) ==
    LET score == calcular_score_regras(features) IN
    [score_risco |-> score, nivel_risco |-> classificar_nivel(score)]

Scores == 0..100

(***************************************************************************)
(* handle_estratificar_risco as a function of the task variables and of    *)
(* the trained model.  A variable of the task is <<>> when the task does   *)
(* not carry it and <<value>> when it does.                                *)
(***************************************************************************)
EmptyDict == [kind |-> "dict", d |-> <<>>]

\* variables.get(name, default)
VarGet(opt, default) == IF opt = <<>> THEN default ELSE opt[1]

\* dados_saude with the defaults extrair_features applies to missing keys
WithDefaults(idade) ==
    [idade |-> idade, imc |-> 25, fumante |-> FALSE, pratica_exercicio |-> FALSE,
     score_saude |-> 50, condicoes_preexistentes |-> {}, num_medicamentos |-> 0]

NoUtilizacao == [internacoes_12m |-> 0]

TaskFailure ==
    [kind |-> "failure", retries |-> 0, fields |-> {}, ml_status |-> "",
     nivel_risco |-> "", score_risco |-> 0]

TaskRaised ==
    [kind |-> "raised", retries |-> -1, fields |-> {}, ml_status |-> "",
     nivel_risco |-> "", score_risco |-> 0]

TaskSuccess(status, nivel, score) ==
    [kind |-> "success", retries |-> -1,
     fields |-> {"ml_status", "score_risco", "nivel_risco", "ml_data_calculo"}
                  \cup (IF status = "SUCESSO" THEN {"ml_modelo_versao"}
                        ELSE {"ml_mensagem_erro"}),
     ml_status |-> status, nivel_risco |-> nivel, score_risco |-> score]

\* The try block and the except block; model.loaded tells whether a
\* trained model was found, model.p is the probability it predicts.
PredictAndReturn(idade, model) ==
    IF idade.t # "int"
    THEN TaskSuccess("ERRO", "MODERADO", 50)       \* idade >= 75: TypeError
    ELSE LET features == extrair_features(WithDefaults(idade.n), NoUtilizacao)
             score == IF model.loaded THEN model.p
                      ELSE calcular_score_regras(features)
         IN TaskSuccess("SUCESSO", classificar_nivel(score), score)

\* idade = variables.get('idade', dados_saude.get('idade', 0))
IdadeOf(variables, dados_saude) ==
    VarGet(variables.idade,
           IF "idade" \in DOMAIN dados_saude.d THEN dados_saude.d.idade ELSE PyInt(0))

\* if 'idade' not in dados_saude: dados_saude['idade'] = idade
IdadeUsed(variables, dados_saude) ==
    IF "idade" \in DOMAIN dados_saude.d THEN dados_saude.d.idade
    ELSE IdadeOf(variables, dados_saude)

handle_estratificar_risco_NoValidation(variables, model) ==
    LET dados_saude == VarGet(variables.dados_saude, EmptyDict)
    IN IF dados_saude.kind # "dict" THEN TaskRaised
       ELSE PredictAndReturn(IdadeUsed(variables, dados_saude), model)

handle_estratificar_risco(variables, model) ==
    LET beneficiario_id == VarGet(variables.beneficiario_id, PyNone)
        dados_saude == VarGet(variables.dados_saude, EmptyDict)
    IN IF dados_saude.kind # "dict"
       THEN TaskRaised                \* dados_saude.get: AttributeError
       ELSE IF ~Truthy(beneficiario_id)
       THEN TaskFailure
       ELSE PredictAndReturn(IdadeUsed(variables, dados_saude), model)

IdadeValues == {PyInt(80), PyInt(30), PyStr(<<"8","0">>)}

DadosSaudeValues ==
    {EmptyDict, [kind |-> "str", d |-> <<>>]}
        \cup {[kind |-> "dict", d |-> [idade |-> i]] : i \in IdadeValues}

Optional(S) == {<<>>} \cup {<<x>> : x \in S}

\* the variables of a claimed task
TaskVariables ==
    [beneficiario_id : Optional({PyStr(<<"B","1">>), PyStr(<<>>)}),
     idade : Optional(IdadeValues),
     dados_saude : Optional(DadosSaudeValues)]

TrainedModels ==
    {[loaded |-> FALSE, p |-> 0], [loaded |-> TRUE, p |-> 10], [loaded |-> TRUE, p |-> 90]}

CallHandleEstratificarRisco ==
    /\ fn = "none"
    /\ \E variables \in TaskVariables, model \in TrainedModels :
          /\ fn' = "handle_estratificar_risco"
          /\ arg' = [variables |-> variables, model |-> model]
          /\ res' = handle_estratificar_risco(variables, model)
    /\ UNCHANGED <<handlerVars, configVars, rpaVars, brokerVars, workerVars, monVars>>

Conditions == {"DIABETES", "HIPERTENSAO", "CARDIACO", "ASMA"}

\* dados_saude of a screening, every key present
DadosSaude ==
    [idade : {30, 55, 65, 75, 80},
     imc : {25, 30, 35},
     fumante : BOOLEAN,
     pratica_exercicio : BOOLEAN,
     score_saude : {30, 50, 70},
     condicoes_preexistentes : SUBSET Conditions,
     num_medicamentos : {0, 3, 5}]

DadosUtilizacao == [internacoes_12m : {0, 1, 2}]

CallClassificarNivel ==
    /\ fn = "none"
    /\ \E score \in Scores :
          /\ fn' = "_classificar_nivel"
          /\ arg' = score
          /\ res' = classificar_nivel(score)
    /\ UNCHANGED <<handlerVars, configVars, rpaVars, brokerVars, workerVars, monVars>>

CallPredizerRisco ==
    /\ fn = "none"
    /\ \E dados \in DadosSaude, util \in DadosUtilizacao :
          /\ fn' = "predizer_risco"
          /\ arg' = extrair_features(dados, util)
          /\ res' = predizer_risco(arg')
    /\ UNCHANGED <<handlerVars, configVars, rpaVars, brokerVars, workerVars, monVars>>

(***************************************************************************)
(* WhatsAppClient._formatar_telefone over strings as character sequences.  *)
(***************************************************************************)
MaxPhoneLen == 13

\* str.isdigit on one character
IsDigit(c) == \E i \in 1..Len(Digits) : Digits[i] = c

\* ''.join(filter(str.isdigit, telefone))
OnlyDigits(telefone) == SelectSeq(telefone, IsDigit)

_formatar_telefone_UpTo11(telefone) ==
    LET numeros == OnlyDigits(telefone)
    IN IF Len(numeros) <= 11 THEN <<"5","5">> \o numeros ELSE numeros

_formatar_telefone(telefone) ==
    LET numeros == OnlyDigits(telefone)
    IN IF Len(numeros) = 11 THEN <<"5","5">> \o numeros
       ELSE IF Len(numeros) = 10 THEN <<"5","5">> \o numeros
       ELSE numeros

PhoneChars == {"5", "-"}

\* every string over a digit and a non-digit up to MaxPhoneLen characters,
\* and the numbers of the test suite with their masks
Telefones ==
    UNION {[1..n -> PhoneChars] : n \in 0..MaxPhoneLen}
      \cup {<<"1","1","9","9","9","9","9","9","9","9","9">>,
            <<"(","1","1",")"," ","9","9","9","9","9","-","9","9","9","9">>,
            <<"5","5","1","1","9","9","9","9","9","9","9","9","9">>,
            <<"1","1","3","3","3","3","4","4","4","4">>,
            <<"+","5","5"," ","(","1","1",")"," ","9","9","9","9","9","-","9","9","9","9">>,
            <<"5","5","9","9","9","9","9","9","9","9","9">>}

CallFormatarTelefone ==
    /\ fn = "none"
    /\ \E telefone \in Telefones :
          /\ fn' = "_formatar_telefone"
          /\ arg' = PyStr(telefone)
          /\ res' = PyStr(_formatar_telefone(telefone))
    /\ UNCHANGED <<handlerVars, configVars, rpaVars, brokerVars, workerVars, monVars>>

(***************************************************************************)
(* worker_autorizacao_inteligente.py: the handler as a function of its     *)
(* variables and of what the three downstream operations do.               *)
(***************************************************************************)
\* POST /elegibilidade: a 200 body with elegivel true, false or without the
\* key, another status code, or an exception (timeout, connection error)
ElegibilidadeAnswers ==
    [kind : {"200"}, elegivel : {"True", "False", "absent"}]
        \cup [kind : {"500", "raises"}, elegivel : {"absent"}]

\* AutorizacaoClient.validar_elegibilidade
validar_elegibilidade(a) ==
    IF a.kind = "200"
    THEN [elegivel |-> (a.elegivel = "True"),       \* dados.get("elegivel", False)
          motivo_negativa |-> IF a.elegivel = "False" THEN "Carencia" ELSE None]
    ELSE IF a.kind = "500"
    THEN [elegivel |-> FALSE, motivo_negativa |-> "Erro na validacao: 500"]
    ELSE [elegivel |-> FALSE, motivo_negativa |-> "str(e)"]

\* POST /processar: a 200/201 body, another status code, or an exception
ProcessarAnswers ==
    [kind : {"200"}, status : {"APROVADA", "ERRO", "absent"},
     numero_autorizacao : {None, "AUT-1"}]
        \cup [kind : {"500", "raises"}, status : {"absent"}, numero_autorizacao : {None}]

\* AutorizacaoClient.processar_autorizacao_automatica
processar_autorizacao_automatica(a) ==
    IF a.kind = "200"
    THEN [status |-> IF a.status = "absent" THEN "PROCESSANDO" ELSE a.status,
          numero_autorizacao |-> a.numero_autorizacao]
    ELSE [status |-> "ERRO", numero_autorizacao |-> None]

\* TASY.RPA_ATUALIZA_AUTORIZACAO_CONV and the commit either succeed or raise
OracleOutcomes == {"committed", "raises"}

\* AutorizacaoClient.registrar_autorizacao_oracle
registrar_autorizacao_oracle(o) == [registrado |-> (o = "committed")]

AutorizacaoOutcome(kind, status, numero, called, registrado) ==
    [kind |-> kind, autorizacao_status |-> status, numero_autorizacao |-> numero,
     registrarCalled |-> called, registrado |-> registrado]

\* required: beneficiario_id, procedimento_codigo and convenio_codigo are
\* all truthy; e, p, o: what the three downstream operations do if called
handle_autorizacao_inteligente(required, e, p, o) ==
    IF ~required
    THEN AutorizacaoOutcome("failure", None, None, FALSE, FALSE)
    ELSE IF ~validar_elegibilidade(e).elegivel
    THEN AutorizacaoOutcome("success", "NEGADA", None, FALSE, FALSE)
    ELSE LET resultado == processar_autorizacao_automatica(p)
         IN IF resultado.status = "ERRO"
            THEN AutorizacaoOutcome("success", "PENDENTE_AUDITORIA", None, FALSE, FALSE)
            ELSE IF resultado.numero_autorizacao # None
            THEN AutorizacaoOutcome("success", "APROVADA",
                                    resultado.numero_autorizacao, TRUE,
                                    registrar_autorizacao_oracle(o).registrado)
            ELSE AutorizacaoOutcome("success", "APROVADA", None, FALSE, FALSE)

CallHandleAutorizacaoInteligente ==
    /\ fn = "none"
    /\ \E required \in BOOLEAN, e \in ElegibilidadeAnswers, p \in ProcessarAnswers,
          o \in OracleOutcomes :
          /\ fn' = "handle_autorizacao_inteligente"
          /\ arg' = [required |-> required, elegibilidade |-> e, processar |-> p,
                     oracle |-> o]
          /\ res' = handle_autorizacao_inteligente(required, e, p, o)
    /\ UNCHANGED <<handlerVars, configVars, rpaVars, brokerVars, workerVars, monVars>>

(***************************************************************************)
(* worker_oracle_autorizacao.py: handle_atualizar_autorizacao as a         *)
(* function of its variables and of what each procedure call does.         *)
(***************************************************************************)
\* A repository method connects, executes its procedure and commits; any
\* of the three may raise, and the except block then rolls back what is
\* not committed yet.
ProcedureOutcomes == {"committed", "connect_raises", "execute_raises", "commit_raises"}

\* OracleAutorizacaoRepository.atualizar_autorizacao_guia
atualizar_autorizacao_guia(o) ==
    [procedure_guia_status |-> IF o = "committed" THEN "SUCESSO" ELSE "ERRO",
     committed |-> (o = "committed")]

\* OracleAutorizacaoRepository.atualizar_estagio_autorizacao
atualizar_estagio_autorizacao(o) ==
    [procedure_estagio_status |-> IF o = "committed" THEN "SUCESSO" ELSE "ERRO",
     committed |-> (o = "committed")]

\* guia, estagio: nr_guia_requisicao / status_autorizacao is truthy;
\* og, oe: what the two procedure calls do if made
handle_atualizar_autorizacao(guia, estagio, og, oe) ==
    LET resultado_guia == atualizar_autorizacao_guia(og)
        resultado_estagio == atualizar_estagio_autorizacao(oe)
        guiaErro == guia /\ resultado_guia.procedure_guia_status = "ERRO"
        estagioErro == estagio /\ resultado_estagio.procedure_estagio_status = "ERRO"
    IN [kind |-> "success",
        oracle_status |-> IF guiaErro \/ estagioErro THEN "ERRO" ELSE "SUCESSO",
        attempted |-> (IF guia THEN {"guia"} ELSE {})
                        \cup (IF estagio THEN {"estagio"} ELSE {}),
        committed |-> (IF guia /\ resultado_guia.committed THEN {"guia"} ELSE {})
                        \cup (IF estagio /\ resultado_estagio.committed
                              THEN {"estagio"} ELSE {})]

CallHandleAtualizarAutorizacao ==
    /\ fn = "none"
    /\ \E guia \in BOOLEAN, estagio \in BOOLEAN,
          og \in ProcedureOutcomes, oe \in ProcedureOutcomes :
          /\ fn' = "handle_atualizar_autorizacao"
          /\ arg' = [guia |-> guia, estagio |-> estagio, og |-> og, oe |-> oe]
          /\ res' = handle_atualizar_autorizacao(guia, estagio, og, oe)
    /\ UNCHANGED <<handlerVars, configVars, rpaVars, brokerVars, workerVars, monVars>>

NextFn ==
    \/ CallHandleEstratificarRisco
    \/ CallHandleAtualizarAutorizacao
    \/ CallHandleAutorizacaoInteligente
    \/ CallFormatarTelefone
    \/ CallClassificarNivel
    \/ CallPredizerRisco
    \/ CallObterEstagio
    \/ CallObterModelo
    \/ CallExtractFields
    \/ CallIniciarProcessoFormat
    \/ CallEnviarMensagemFormat

\* No task is claimed and no worker process runs.
InitNoTask ==
    /\ handler = "none"
    /\ pc = "idle"
    /\ inReq = "valid"
    /\ inAux = "dict"
    /\ outKind = "none"
    /\ outRetries = -1
    /\ downstreamCalled = FALSE
    /\ dsRaised = FALSE
    /\ sessionOpen = FALSE
    /\ timeout_seconds = DefaultConfig[1]
    /\ poll_interval_seconds = DefaultConfig[2]
    /\ processConfigured = TRUE
    /\ now = 0
    /\ tempo_inicio = 0
    /\ nQueries = 0
    /\ queryTime = 0
    /\ lastAnswer = NoAnswer
    /\ lastLog = "none"
    /\ rpa_mensagem = NoMessage
    /\ rpa_status = None
    /\ rpa_output = None
    /\ instance_id = None
    /\ out_rpa_status = None
    /\ rpa_instance_id = None
    /\ remoteScript = <<>>
    /\ scenario = <<>>
    /\ claims = 0
    /\ InitWorkerIdle

InitFn == InitNoTask /\ InitFnIdle /\ InitMonIdle

SpecFn == InitFn /\ [][NextFn]_vars

(***************************************************************************)
(* scripts/run_workers.py: monitor_processes and the worker processes it   *)
(* started, each with its stdout connected to a pipe.                      *)
(***************************************************************************)
NWorkers == 2
PipeCap == 2

Procs == 1..NWorkers

\* positions inside the try block of monitor_processes
Monitoring == {"readline", "poll", "sleep"}

\* A worker writes a line; it blocks while its pipe is full.
WorkerWrites ==
    /\ mpc # "off"
    /\ \E i \in Procs :
          /\ running[i]
          /\ pipe[i] < PipeCap
          /\ pipe' = [pipe EXCEPT ![i] = @ + 1]
    /\ UNCHANGED <<handlerVars, configVars, rpaVars, brokerVars, workerVars, fnVars,
                   mpc, idx, running, exitDetected, termSent>>

\* A worker process exits on its own.
WorkerExits ==
    /\ mpc # "off"
    /\ \E i \in Procs :
          /\ running[i]
          /\ running' = [running EXCEPT ![i] = FALSE]
    /\ UNCHANGED <<handlerVars, configVars, rpaVars, brokerVars, workerVars, fnVars,
                   mpc, idx, pipe, exitDetected, termSent>>

\* line = process.stdout.readline(): returns a buffered line, or '' at end
\* of file; with an empty pipe and a live writer it does not return.
MonReadline ==
    /\ mpc = "readline"
    /\ \/ /\ pipe[idx] > 0
          /\ pipe' = [pipe EXCEPT ![idx] = @ - 1]
       \/ /\ pipe[idx] = 0
          /\ ~running[idx]
          /\ UNCHANGED pipe
    /\ mpc' = "poll"
    /\ UNCHANGED <<handlerVars, configVars, rpaVars, brokerVars, workerVars, fnVars,
                   idx, running, exitDetected, termSent>>

\* if process.poll() is not None: logger.warning(...); then the next
\* worker of the for loop, or time.sleep(0.1) after the last one
MonPoll ==
    /\ mpc = "poll"
    /\ exitDetected' = [exitDetected EXCEPT ![idx] = @ \/ ~running[idx]]
    /\ IF idx < NWorkers
       THEN idx' = idx + 1 /\ mpc' = "readline"
       ELSE idx' = idx /\ mpc' = "sleep"
    /\ UNCHANGED <<handlerVars, configVars, rpaVars, brokerVars, workerVars, fnVars,
                   running, pipe, termSent>>

\* time.sleep(0.1), then the for loop starts again
MonSleep ==
    /\ mpc = "sleep"
    /\ mpc' = "readline"
    /\ idx' = 1
    /\ UNCHANGED <<handlerVars, configVars, rpaVars, brokerVars, workerVars, fnVars,
                   running, pipe, exitDetected, termSent>>

\* Ctrl+C anywhere in the try block enters the except block.
KeyboardInterrupt ==
    /\ mpc \in Monitoring
    /\ mpc' = "terminate"
    /\ idx' = 1
    /\ UNCHANGED <<handlerVars, configVars, rpaVars, brokerVars, workerVars, fnVars,
                   running, pipe, exitDetected, termSent>>

\* process.terminate()
MonTerminate ==
    /\ mpc = "terminate"
    /\ termSent' = [termSent EXCEPT ![idx] = TRUE]
    /\ mpc' = "wait"
    /\ UNCHANGED <<handlerVars, configVars, rpaVars, brokerVars, workerVars, fnVars,
                   idx, running, pipe, exitDetected>>

\* process.wait(timeout=5): the worker exits within 5 seconds, or
\* subprocess.TimeoutExpired leaves the except block and the function
MonWait ==
    /\ mpc = "wait"
    /\ \E exits \in IF running[idx] THEN BOOLEAN ELSE {TRUE} :
          IF exits
          THEN /\ running' = [running EXCEPT ![idx] = FALSE]
               /\ IF idx < NWorkers
                  THEN idx' = idx + 1 /\ mpc' = "terminate"
                  ELSE idx' = idx /\ mpc' = "returned"
          ELSE /\ mpc' = "raised"
               /\ UNCHANGED <<idx, running>>
    /\ UNCHANGED <<handlerVars, configVars, rpaVars, brokerVars, workerVars, fnVars,
                   pipe, exitDetected, termSent>>

\* monitor_processes is entered with every worker just started.
InitMon ==
    /\ InitNoTask
    /\ InitFnIdle
    /\ mpc = "readline"
    /\ idx = 1
    /\ running = [i \in Procs |-> TRUE]
    /\ pipe = [i \in Procs |-> 0]
    /\ exitDetected = [i \in Procs |-> FALSE]
    /\ termSent = [i \in Procs |-> FALSE]

NextMon ==
    \/ WorkerWrites
    \/ WorkerExits
    \/ MonReadline
    \/ MonPoll
    \/ MonSleep
    \/ KeyboardInterrupt
    \/ MonTerminate
    \/ MonWait

SpecMonitor == InitMon /\ [][NextMon]_vars

\* The monitor is a running thread: a step of its loop that can be taken
\* is taken.  Nothing obliges a worker to write or to exit, or the
\* operator to press Ctrl+C.
FairSpecMonitor ==
    SpecMonitor /\ WF_vars(MonReadline) /\ WF_vars(MonPoll) /\ WF_vars(MonSleep)

(***************************************************************************)
(* Properties of aguardar_conclusao.                                       *)
(***************************************************************************)
InWait == handler = RPA /\ pc \in {"wait_check", "wait_query", "wait_sleep"}

\* aguardar_conclusao has returned a tuple (it did not raise).
WaitReturned == rpa_status # None

\* The last query ended the loop: a terminal status, or an exception that
\* is not a RequestException.
SawTerminal ==
    \/ lastAnswer.kind = "badpayload"
    \/ /\ lastAnswer.kind = "status"
       /\ Upper(lastAnswer.raw) \in {sDONE, sCOMPLETED, sFAILED, sCANCELED, sERROR}

\* C1: against a remote that never reports a terminal status the call
\* eventually returns TIMEOUT; TIMEOUT is returned only at an elapsed time
\* of at least timeout_seconds; and no query is issued after the return.
C1_TimeoutTerminates ==
    /\ [](rpa_status = "TIMEOUT" => Elapsed >= timeout_seconds)
    /\ [][WaitReturned => nQueries' = nQueries]_vars
    /\ (InWait ~> (rpa_status = "TIMEOUT" \/ SawTerminal))

C1_Witness ==
    /\ pc = "done"
    /\ rpa_status = "TIMEOUT"
    /\ nQueries >= 2
    /\ ~SawTerminal

\* C2: the query that observes DONE or COMPLETED (in any letter case) is
\* the last one: the call returns SUCESSO from it without sleeping, and no
\* further query follows.
C2_SuccessEndsPolling ==
    /\ [][(/\ nQueries' = nQueries + 1
           /\ lastAnswer'.kind = "status"
           /\ Upper(lastAnswer'.raw) \in {sDONE, sCOMPLETED})
          => (rpa_status' = "SUCESSO" /\ pc' = "extract")]_vars
    /\ [][rpa_status = "SUCESSO" => (nQueries' = nQueries /\ now' = now)]_vars

C2_Witness ==
    /\ pc = "done"
    /\ rpa_status = "SUCESSO"
    /\ nQueries >= 3
    /\ lastAnswer.raw # sDONE

\* C3 as stated: the call never runs past the budget, that is, while it is
\* in progress and when it returns the elapsed time is at most
\* timeout_seconds.
C3_NeverPastTimeout ==
    (InWait \/ (handler = RPA /\ pc = "extract")) => Elapsed <= timeout_seconds

\* C3 amended: no status query starts once the elapsed time has reached
\* timeout_seconds, and the call is over less than one request time plus
\* one poll interval after the budget.
C3_BoundedOvershoot ==
    /\ [][nQueries' = nQueries + 1 => Elapsed < timeout_seconds]_vars
    /\ []((InWait \/ WaitReturned)
            => Elapsed < timeout_seconds + MaxLatency + poll_interval_seconds)

C3_Witness ==
    /\ rpa_status = "TIMEOUT"
    /\ Elapsed > timeout_seconds

InScenario ==
    /\ handler = RPA
    /\ scenario = ScenarioScript
    /\ timeout_seconds = 30
    /\ poll_interval_seconds = 5

C5_AlwaysTaskResult ==
    pc = "done" => outKind \in {"success", "failure"}

\* Handlers that look a record up, or act on one, by a key variable.
KeyedHandlers ==
    TableHandlers \ {"handle_atualizar_modelos", "handle_processar_demanda"}

\* C6: when the key variable of a handler is absent or empty the task is
\* failed with retries = 0 and nothing is sent downstream.
C6_MissingInputIsIncident ==
    (pc = "done" /\ handler \in KeyedHandlers /\ Missing(inReq))
        => (outKind = "failure" /\ outRetries = 0 /\ ~downstreamCalled)

C8_TimeoutIsSuccess ==
    (handler = RPA /\ pc = "done" /\ rpa_status = "TIMEOUT")
        => /\ outKind = "success"
           /\ out_rpa_status = "TIMEOUT"
           /\ rpa_instance_id = instance_id

C8_Witness ==
    /\ handler = RPA
    /\ pc = "done"
    /\ rpa_status = "TIMEOUT"
    /\ instance_id # None
    /\ outKind = "success"

(***************************************************************************)
(* Properties of the task lock and of the worker process.                  *)
(***************************************************************************)
\* C9: while handle_executar_rpa has not reported, the task stays owned by
\* this worker alone: the lock taken at fetch time (never extended) has not
\* run out, and no second fetchAndLock has obtained the task.
C9_LockOutlivesHandler ==
    (handler = RPA /\ pc # "done") => (~LockExpired /\ claims = 1)

\* C10: once the worker process has completed an idle cycle, every topic
\* named in main() has been polled at least once.
C10_EveryTopicPolled ==
    idleCycles >= 1 => \A t \in Topics : polls[t] >= 1

(***************************************************************************)
(* Resources of an invocation.                                             *)
(***************************************************************************)
\* C11: when a handler has returned (result, failure or exception), no
\* HTTP session or database connection opened by the invocation is still
\* open.
C11_SessionsClosed ==
    pc = "done" => ~sessionOpen

(***************************************************************************)
(* The status classification of aguardar_conclusao.                        *)
(***************************************************************************)
\* C12: every status string a query returns is classified, by its
\* upper-cased form alone: DONE and COMPLETED end the loop with SUCESSO,
\* FAILED, CANCELED and ERROR end it with ERRO, every other string (the
\* empty string included) sends the loop to its sleep, and strings that
\* differ only in letter case are classified the same.
C12_ClassificationTotal ==
    /\ [][(nQueries' = nQueries + 1 /\ lastAnswer'.kind = "status")
            => LET u == Upper(lastAnswer'.raw)
               IN IF u \in {sDONE, sCOMPLETED}
                  THEN rpa_status' = "SUCESSO" /\ pc' = "extract"
                  ELSE IF u \in {sFAILED, sCANCELED, sERROR}
                  THEN rpa_status' = "ERRO" /\ pc' = "extract"
                  ELSE rpa_status' = None /\ pc' = "wait_sleep"]_vars
    /\ [](lastAnswer.kind = "status"
            => \A r \in RawStatuses :
                  Upper(r) = Upper(lastAnswer.raw)
                      => ClassifyStatus(r) = ClassifyStatus(lastAnswer.raw))

C12_Witness ==
    /\ pc = "done"
    /\ rpa_status = "ERRO"
    /\ lastAnswer.kind = "status"
    /\ lastAnswer.raw \notin {sFAILED, sCANCELED, sERROR}
    /\ nQueries >= 2

(***************************************************************************)
(* The authorization-status tables.                                        *)
(***************************************************************************)
\* C13: obter_estagio_por_status and obter_modelo_por_status give the same
\* value to every spelling of a status that differs from the argument
\* only in letter case.
C13_CaseVariantsAgree ==
    /\ fn = "obter_estagio_por_status"
         => \A w \in StatusWords :
               Upper(w) = Upper(arg.v) => obter_estagio_por_status(PyStr(w)) = res
    /\ fn = "obter_modelo_por_status"
         => \A w \in StatusWords :
               Upper(w) = Upper(arg.v) => obter_modelo_por_status(PyStr(w)) = res

(***************************************************************************)
(* The result fields of handle_executar_rpa.                               *)
(***************************************************************************)
\* the float values the payload carries under a guia alias
GuiaFloats ==
    {arg.outputs.d[k] : k \in (IF arg.outputs.kind = "dict"
                               THEN DOMAIN arg.outputs.d ELSE {}) \cap Range(guiaAliases)}
      \cup {arg.variables[i].value :
               i \in {j \in DOMAIN arg.variables :
                         arg.variables[j].name \in Range(guiaAliases)}}

\* C14: when the payload carries the guia number as a float under one of
\* the aliases (and nothing else under a guia alias), nr_guia_requisicao
\* is reported as the decimal string of the float's integer part.
C14_FloatGuiaAsIntString ==
    (/\ fn = "ExtractFields"
     /\ GuiaFloats # {}
     /\ Cardinality(GuiaFloats) = 1
     /\ \A x \in GuiaFloats : x.t = "float")
        => \A x \in GuiaFloats : res.nr_guia_requisicao = PyStr(IntToStr(x.n))

\* the names the payload uses, in outputs and in variables
NamesUsed ==
    (IF arg.outputs.kind = "dict" THEN DOMAIN arg.outputs.d ELSE {})
        \cup {arg.variables[i].name : i \in DOMAIN arg.variables}

\* C15: a field none of whose aliases occurs in the payload is reported as
\* None, and the extraction does not raise.
C15_MissingAliasesGiveNone ==
    fn = "ExtractFields"
        => /\ NamesUsed \cap Range(statusAliases) = {}
                => (res.status_autorizacao = PyNone /\ ~res.raised)
           /\ NamesUsed \cap Range(guiaAliases) = {}
                => (res.nr_guia_requisicao = PyNone /\ ~res.raised)
           /\ NamesUsed \cap Range(numeroAliases) = {}
                => (res.numero_autorizacao = PyNone /\ ~res.raised)

(***************************************************************************)
(* Process variables sent by the scripts.                                  *)
(***************************************************************************)
\* the type tag of a Python value
TagOf(x) ==
    IF x.t = "bool" THEN "Boolean"
    ELSE IF x.t = "int" THEN "Integer"
    ELSE IF x.t = "float" THEN "Double"
    ELSE IF x.t = "dict" THEN "Json"
    ELSE "String"

\* C16: a variable formatted by iniciar_processo or by enviar_mensagem
\* carries the type tag of its Python value, and decoding it gives the
\* original value back.
C16_TypeTagRoundTrip ==
    fn \in {"iniciar_processo", "enviar_mensagem"}
        => (res.type = TagOf(arg) /\ Decode(res) = arg)

(***************************************************************************)
(* The risk model.                                                         *)
(***************************************************************************)
\* C18: with the default thresholds a score is COMPLEXO iff it is at least
\* 0.85, ALTO iff in [0.70, 0.85), MODERADO iff in [0.40, 0.70), BAIXO iff
\* below 0.40; and the rule-based score lies in [0, 1].
C18_LevelsAndScoreRange ==
    /\ fn = "_classificar_nivel"
         => /\ res = "COMPLEXO" <=> arg >= 85
            /\ res = "ALTO" <=> (70 <= arg /\ arg < 85)
            /\ res = "MODERADO" <=> (40 <= arg /\ arg < 70)
            /\ res = "BAIXO" <=> arg < 40
    /\ fn = "predizer_risco"
         => /\ 0 <= res.score_risco /\ res.score_risco <= 100
            /\ res.nivel_risco = "COMPLEXO" <=> res.score_risco >= 85
            /\ res.nivel_risco = "ALTO" <=> (70 <= res.score_risco /\ res.score_risco < 85)
            /\ res.nivel_risco = "MODERADO" <=> (40 <= res.score_risco /\ res.score_risco < 70)
            /\ res.nivel_risco = "BAIXO" <=> res.score_risco < 40

C18_Witness ==
    /\ fn = "predizer_risco"
    /\ RuleSum(arg) > 100
    /\ res.score_risco = 100
    /\ res.nivel_risco = "COMPLEXO"

\* the task whose variables are exactly {idade: 80}
OnlyIdade80 ==
    /\ fn = "handle_estratificar_risco"
    /\ arg.variables = [beneficiario_id |-> <<>>, idade |-> <<PyInt(80)>>,
                        dados_saude |-> <<>>]

\* C17 as stated: for the task whose variables are exactly {idade: 80}
\* the handler reports a Success outcome with a nivel_risco field.
C17_Idade80Succeeds ==
    OnlyIdade80 => (res.kind = "success" /\ "nivel_risco" \in res.fields)

\* C17 amended: the task with variables exactly {idade: 80} is failed with
\* retries = 0 and no nivel_risco, because beneficiario_id is required;
\* when beneficiario_id is present as well (and dados_saude, if sent, is a
\* dict) the handler reports a Success outcome with a nivel_risco field,
\* and for {beneficiario_id, idade: 80} without a trained model the score
\* is 0.35 and the level BAIXO.
C17_Idade80NeedsBeneficiario ==
    /\ OnlyIdade80
         => (res.kind = "failure" /\ res.retries = 0 /\ "nivel_risco" \notin res.fields)
    /\ (/\ fn = "handle_estratificar_risco"
        /\ Truthy(VarGet(arg.variables.beneficiario_id, PyNone))
        /\ VarGet(arg.variables.dados_saude, EmptyDict).kind = "dict")
         => /\ res.kind = "success"
            /\ "nivel_risco" \in res.fields
            /\ res.nivel_risco = classificar_nivel(res.score_risco)
                 \/ res.ml_status = "ERRO"
    /\ (/\ fn = "handle_estratificar_risco"
        /\ arg.variables = [beneficiario_id |-> <<PyStr(<<"B","1">>)>>,
                            idade |-> <<PyInt(80)>>, dados_saude |-> <<>>]
        /\ ~arg.model.loaded)
         => (res.score_risco = 35 /\ res.nivel_risco = "BAIXO")

C17_Witness ==
    /\ fn = "handle_estratificar_risco"
    /\ arg.variables = [beneficiario_id |-> <<PyStr(<<"B","1">>)>>,
                        idade |-> <<PyInt(80)>>, dados_saude |-> <<>>]
    /\ ~arg.model.loaded
    /\ res.kind = "success"
    /\ res.nivel_risco = "BAIXO"

\* C19: _formatar_telefone returns exactly the digits of its input, in
\* order, prefixed with 55 when there are 10 or 11 of them; a number in
\* international form (55 and 10 or 11 more digits) is returned as it is;
\* and formatting the result again gives the same string.
C19_FormatIdempotent ==
    fn = "_formatar_telefone" =>
        LET numeros == OnlyDigits(arg.v)
        IN /\ \A i \in 1..Len(res.v) : IsDigit(res.v[i])
           /\ Len(numeros) \in {10, 11} => res.v = <<"5","5">> \o numeros
           /\ Len(numeros) \notin {10, 11} => res.v = numeros
           /\ (/\ Len(numeros) \in {12, 13}
               /\ SubSeq(numeros, 1, 2) = <<"5","5">>) => res.v = numeros
           /\ _formatar_telefone(res.v) = res.v

\* a masked 11-digit number was prefixed, and its result is in
\* international form
C19_Witness ==
    /\ fn = "_formatar_telefone"
    /\ arg.v = <<"(","1","1",")"," ","9","9","9","9","9","-","9","9","9","9">>
    /\ res.v = <<"5","5","1","1","9","9","9","9","9","9","9","9","9">>

\* C20: a status query that ends with a network error returns nothing from
\* aguardar_conclusao: the loop sleeps poll_interval_seconds and goes back
\* to the budget test, which starts another query unless the budget is
\* spent; no step of the loop changes tempo_inicio or timeout_seconds, and
\* the budget test returns TIMEOUT exactly when the time since entry has
\* reached timeout_seconds.
C20_NetworkErrorKeepsPolling ==
    [][/\ (pc = "wait_query" /\ lastAnswer'.kind = "neterr")
            => /\ pc' = "wait_sleep"
               /\ nQueries' = nQueries + 1
               /\ rpa_status' = rpa_status
               /\ outKind' = outKind
       /\ (pc = "wait_sleep" /\ lastAnswer.kind = "neterr")
            => /\ pc' = "wait_check"
               /\ now' = now + poll_interval_seconds
       /\ InWait
            => /\ tempo_inicio' = tempo_inicio
               /\ timeout_seconds' = timeout_seconds
       /\ (InWait /\ pc = "wait_check")
            => IF now - tempo_inicio >= timeout_seconds
               THEN pc' = "extract" /\ rpa_status' = "TIMEOUT" /\ nQueries' = nQueries
               ELSE pc' = "wait_query" /\ rpa_status' = rpa_status
      ]_vars

\* after a failed query and the sleep that follows it the loop is about to
\* query again, with the clock still measured from the entry time
C20_Witness ==
    /\ handler = RPA
    /\ pc = "wait_query"
    /\ lastAnswer.kind = "neterr"
    /\ nQueries >= 1
    /\ queryTime >= 1
    /\ now - tempo_inicio = queryTime + nQueries * poll_interval_seconds

(***************************************************************************)
(* Unknown and failure statuses in the polling loop.                       *)
(***************************************************************************)
\* the last status answered is outside the vocabulary of the if/elif chain
SawUnknown ==
    /\ lastAnswer.kind = "status"
    /\ Upper(lastAnswer.raw) \notin {sDONE, sCOMPLETED, sFAILED, sCANCELED, sERROR,
                                     sNEW, sQUEUED, sPROCESSING, sRUNNING, sPENDING}

\* the last status answered is FAILED, CANCELED or ERROR in any letter case
SawFailure ==
    /\ lastAnswer.kind = "status"
    /\ Upper(lastAnswer.raw) \in {sFAILED, sCANCELED, sERROR}

\* C21: a status outside the known vocabulary does not end the polling
\* loop: the query that observes it logs a WARNING and returns nothing,
\* the loop then sleeps poll_interval_seconds and goes back to the budget
\* test, which either returns TIMEOUT or starts another query; and a
\* result of aguardar_conclusao is always TIMEOUT or the classification
\* of a known terminal status.
C21_UnknownStatusKeepsPolling ==
    /\ [][/\ (pc = "wait_query" /\ nQueries' = nQueries + 1 /\ SawUnknown')
               => /\ lastLog' = "WARNING"
                  /\ pc' = "wait_sleep"
                  /\ rpa_status' = None
                  /\ outKind' = outKind
          /\ (pc = "wait_sleep" /\ SawUnknown)
               => /\ pc' = "wait_check"
                  /\ now' = now + poll_interval_seconds
          /\ (InWait /\ pc = "wait_check" /\ SawUnknown)
               => \/ pc' = "wait_query" /\ rpa_status' = None
                  \/ rpa_status' = "TIMEOUT"
         ]_vars
    /\ [](WaitReturned
            => \/ rpa_status = "TIMEOUT"
               \/ /\ lastAnswer.kind = "status"
                  /\ Upper(lastAnswer.raw) \in {sDONE, sCOMPLETED, sFAILED, sCANCELED, sERROR})

\* an unknown status was observed and logged, and the loop is about to
\* query again
C21_Witness ==
    /\ handler = RPA
    /\ pc = "wait_query"
    /\ SawUnknown
    /\ lastLog = "WARNING"
    /\ nQueries >= 1
    /\ rpa_status = None

\* C22: the query that observes FAILED, CANCELED or ERROR makes
\* aguardar_conclusao return ERRO at once, no query follows it, and the
\* returned message ends with the remote errorMessage when the body
\* carries a non-empty one.
C22_FailureReturnsWithMessage ==
    /\ [][/\ (pc = "wait_query" /\ nQueries' = nQueries + 1 /\ SawFailure')
               => /\ rpa_status' = "ERRO"
                  /\ pc' = "extract"
                  /\ Len(rpa_mensagem') = 2
                  /\ lastAnswer'.err.errorMessage \notin {None, ""}
                       => rpa_mensagem'[2] = lastAnswer'.err.errorMessage
          /\ (SawFailure /\ rpa_status = "ERRO")
               => /\ nQueries' = nQueries
                  /\ rpa_mensagem' = rpa_mensagem
                  /\ rpa_status' = rpa_status
         ]_vars

\* the handler has reported after a failure status whose body carried both
\* an errorMessage and an error key
C22_Witness ==
    /\ pc = "done"
    /\ SawFailure
    /\ rpa_status = "ERRO"
    /\ lastAnswer.err = [errorMessage |-> "Robot crashed", error |-> "E42"]
    /\ rpa_mensagem = <<"Processo falhou: ", "Robot crashed">>
    /\ nQueries >= 2

(***************************************************************************)
(* Preference order among the aliases of a result field.                   *)
(***************************************************************************)
RECURSIVE FirstPresent(_, _)
\* the value under the first of the aliases that is a key of outputs
FirstPresent(outputs, aliases) ==
    IF aliases = <<>> THEN PyNone
    ELSE IF Head(aliases) \in DOMAIN outputs THEN outputs[Head(aliases)]
    ELSE FirstPresent(outputs, Tail(aliases))

\* the outputs map of the call holds two aliases of the field
TwoAliases(aliases) ==
    /\ fn = "ExtractFields"
    /\ arg.outputs.kind = "dict"
    /\ arg.variables = <<>>
    /\ Cardinality(DOMAIN arg.outputs.d \cap Range(aliases)) >= 2

\* C23: when the outputs map holds more than one alias of a result field
\* (and the variables list is empty), the field reported is the value of
\* the first alias present in the preference order, whatever that value
\* is; for nr_guia_requisicao it is that value converted to a string.
C23_FirstAliasPresentWins ==
    /\ TwoAliases(statusAliases)
         => res.status_autorizacao = FirstPresent(arg.outputs.d, statusAliases)
    /\ TwoAliases(numeroAliases)
         => res.numero_autorizacao = FirstPresent(arg.outputs.d, numeroAliases)
    /\ TwoAliases(guiaAliases)
         => LET first == FirstPresent(arg.outputs.d, guiaAliases)
            IN res.nr_guia_requisicao =
                 IF first.t = "NoneType" THEN PyNone
                 ELSE IF first.t = "float" THEN Str(IntOf(first))
                 ELSE Str(first)

(***************************************************************************)
(* The instance id of the started process.                                 *)
(***************************************************************************)
\* C24: once iniciar_processo has returned an instance id, the outcome
\* handle_executar_rpa reports carries that id in rpa_instance_id.
C24_OutcomeCarriesInstanceId ==
    (handler = RPA /\ pc = "done" /\ outKind = "success" /\ instance_id # None)
        => rpa_instance_id = instance_id

\* C25: when iniciar_processo yields None, aguardar_conclusao is not
\* entered, no status query is made and the outcome reported is
\* rpa_status = ERRO.
C25_NoPollingWithoutInstance ==
    (handler = RPA /\ pc # "iniciar" /\ downstreamCalled /\ instance_id = None)
        => /\ ~InWait
           /\ nQueries = 0
           /\ pc = "done" => out_rpa_status = "ERRO"

(***************************************************************************)
(* handle_autorizacao_inteligente.                                         *)
(***************************************************************************)
\* C26: autorizacao_status = NEGADA is reported only when the eligibility
\* service answered (a 200 response) that the beneficiary is not eligible.
C26_NegadaOnlyWhenAnswered ==
    (fn = "handle_autorizacao_inteligente" /\ res.autorizacao_status = "NEGADA")
        => (arg.elegibilidade.kind = "200" /\ arg.elegibilidade.elegivel # "True")

\* C27: autorizacao_status = APROVADA is reported only when the processing
\* service returned an authorization number and registrar_autorizacao_oracle
\* returned registrado = True for it.
C27_AprovadaOnlyWhenRegistered ==
    (fn = "handle_autorizacao_inteligente" /\ res.autorizacao_status = "APROVADA")
        => /\ res.numero_autorizacao # None
           /\ res.registrarCalled
           /\ res.registrado

(***************************************************************************)
(* handle_atualizar_autorizacao.                                           *)
(***************************************************************************)
\* C28: when oracle_status = ERRO is reported none of the updates of the
\* invocation was committed, and when SUCESSO is reported every update
\* that was attempted was committed.
C28_UpdatesAllOrNothing ==
    fn = "handle_atualizar_autorizacao" =>
        /\ res.oracle_status = "ERRO" => res.committed = {}
        /\ res.oracle_status = "SUCESSO" => res.committed = res.attempted

(***************************************************************************)
(* monitor_processes.                                                      *)
(***************************************************************************)
\* C29: when monitor_processes has ended after a KeyboardInterrupt, every
\* worker that was started has received terminate().
C29_InterruptTerminatesAll ==
    mpc \in {"returned", "raised"} => \A i \in Procs : termSent[i]

\* C30: while monitor_processes is monitoring, the exit of every worker is
\* eventually detected and a worker whose pipe is full eventually has a
\* line read from it, whatever the other workers write.
C30_NoWorkerBlocksMonitoring ==
    \A i \in Procs :
        /\ (mpc \in Monitoring /\ ~running[i])
              ~> (exitDetected[i] \/ mpc \notin Monitoring)
        /\ (mpc \in Monitoring /\ running[i] /\ pipe[i] = PipeCap)
              ~> (pipe[i] < PipeCap \/ ~running[i] \/ mpc \notin Monitoring)

====
